---- MODULE Spec2Model ----
(***************************************************************************)
(* go-change-ref: rewriting every reference to one Go symbol into a        *)
(* reference to another, package by package (src/main.go, the version      *)
(* with resultPresenter and -to-pkg-name, lines 242-586).                  *)
(*                                                                         *)
(* A loaded project is a snapshot: packages, their files, each file an     *)
(* import list and a sequence of tree positions with their types.Info.Uses *)
(* entry.  main() is the state machine: load and sort, processPackage for  *)
(* each package in order, then flush the buffered presenter.               *)
(***************************************************************************)
EXTENDS Integers, Sequences, FiniteSets, TLC

(***************************************************************************)
(* Bounds of the model.                                                    *)
(***************************************************************************)
\* tree positions in the whole loaded project
MaxTotal == 2
\* files per package
MaxFiles == 2

(***************************************************************************)
(* The universe of packages.  PathOrder lists the import paths in          *)
(* ascending string order, which is the order "<" gives on package IDs.    *)
(***************************************************************************)
P1 == "ex/pkg1"
P2 == "ex/pkg2"
P3 == "ex/pkg3"
PX == "other/pkg3"

PathOrder == <<P1, P2, P3, PX>>

Paths == {PathOrder[i] : i \in 1..Len(PathOrder)}

Rank(p) == CHOOSE i \in 1..Len(PathOrder) : PathOrder[i] = p

\* the package clause of each package: ex/pkg3 and other/pkg3 share a name
PkgName == [p \in Paths |-> CASE p = P1 -> "pkg1" [] p = P2 -> "pkg2" [] OTHER -> "pkg3"]

\* the packages matched by the directory pattern; the others are dependencies
Loadable == {P1, P3}

\* package-level names a package may declare
Members == [p \in Paths |-> CASE p = P1 -> {"T1"} [] p = P2 -> {"T2", "U2"}
                              [] p = P3 -> {"T3"} [] OTHER -> {"T2"}]

\* the package-level name a loadable package declares
OwnName == [p \in Loadable |-> IF p = P1 THEN "T1" ELSE "T3"]

(***************************************************************************)
(* Objects (types.Object) are compared by identity: the declaring package  *)
(* and the name, or a function-local object.  NoObj is the nil object.     *)
(***************************************************************************)
NoObj == <<"", "">>

LocalObj(n) == <<"local", n>>

(***************************************************************************)
(* Tree positions.  kind "ident" is an *ast.Ident, kind "sel" an           *)
(* *ast.SelectorExpr x.name; use is the Uses entry of the identifier (of   *)
(* the Sel identifier for a selector); ctx is where the position sits:     *)
(* "decl" the declared name of a type declaration, "recv" the receiver     *)
(* type of func (t T) M(), "recvStar" the X of func (t *T) M(), "expr"     *)
(* anywhere else.                                                          *)
(***************************************************************************)
Ident(n, use, ctx) == [kind |-> "ident", x |-> "", name |-> n, use |-> use, ctx |-> ctx]

Selector(x, n, use) == [kind |-> "sel", x |-> x, name |-> n, use |-> use, ctx |-> "expr"]

\* an import declaration; name "" is an import without an explicit name
ImportSpec(n, p) == [name |-> n, path |-> p]

\* the identifier an import declares in its file
ImportIdent(s) == IF s.name = "" THEN PkgName[s.path] ELSE s.name

(***************************************************************************)
(* What packages.Load may return.  A file is generated from its positions: *)
(* a qualified use through an import (implicit name, custom alias "alt",   *)
(* or explicit default name) or, in ex/pkg1, an unqualified use of the     *)
(* package's own name (genuine, shadowed by a local, or a receiver).       *)
(***************************************************************************)
IdentShapes(own) ==
    LET n == OwnName[own] IN
    IF own = P1
    THEN { Ident(n, <<own, n>>, "expr"), Ident(n, <<own, n>>, "recv"),
           Ident(n, <<own, n>>, "recvStar"), Ident(n, LocalObj(n), "expr") }
    ELSE {}

\* type T int: the declaration of the package's own name
DeclShape(own) == Ident(OwnName[own], NoObj, "decl")

ImportSpecs(own) ==
    {ImportSpec(a, p) : a \in {"", "alt"}, p \in Paths \ {own}}
    \cup {ImportSpec(PkgName[p], p) : p \in {P2}}

\* a position together with the import it goes through (none for an identifier)
Protos(own) ==
    {[node |-> nd, imp |-> <<>>] : nd \in IdentShapes(own)}
    \cup {[node |-> Selector(ImportIdent(s), m, <<s.path, m>>), imp |-> <<s>>] :
            s \in ImportSpecs(own), m \in UNION {Members[q] : q \in Paths}}

ProtoOk(pr) == pr.imp = <<>> \/ pr.node.name \in Members[pr.imp[1].path]

RECURSIVE SortSpecs(_)
\* the import specs of a set, in ascending path order
SortSpecs(S) ==
    IF S = {} THEN <<>>
    ELSE LET s == CHOOSE t \in S : \A u \in S : Rank(t.path) <= Rank(u.path)
         IN <<s>> \o SortSpecs(S \ {s})

FileOf(fname, protos) ==
    [fname |-> fname,
     imports |-> SortSpecs({protos[i].imp[1] : i \in {j \in 1..Len(protos) : protos[j].imp # <<>>}}),
     nodes |-> [i \in 1..Len(protos) |-> protos[i].node]]

\* a file compiles only if its imports declare distinct identifiers for distinct paths
FileOk(f) ==
    \A i, j \in 1..Len(f.imports) :
        i # j => /\ ImportIdent(f.imports[i]) # ImportIdent(f.imports[j])
                 /\ f.imports[i].path # f.imports[j].path

FName(p, k) == <<p, k>>

\* file k of a package, with n positions; the first file of a package may
\* begin with the declaration of the package's own name, which n does not count
FilesOf(own, k, n) ==
    LET body == [1..n -> {q \in Protos(own) : ProtoOk(q)}]
        decl == [node |-> DeclShape(own), imp |-> <<>>]
        all == {FileOf(FName(own, k), pr) : pr \in body}
               \cup (IF k = 1 THEN {FileOf(FName(own, k), <<decl>> \o pr) : pr \in body} ELSE {})
    IN {f \in all : FileOk(f)}

RECURSIVE FileSeqs(_, _, _)
\* the files of one package, file k holding counts[k] positions
FileSeqs(own, counts, k) ==
    IF k > Len(counts) THEN {<<>>}
    ELSE {<<f>> \o r : f \in FilesOf(own, k, counts[k]), r \in FileSeqs(own, counts, k + 1)}

RECURSIVE Sum(_)
Sum(s) == IF s = <<>> THEN 0 ELSE Head(s) + Sum(Tail(s))

\* how many positions each file of a package holds
Counts == {c \in UNION {[1..k -> 1..MaxTotal] : k \in 1..MaxFiles} : Sum(c) <= MaxTotal}

NodesOf(files) == UNION {{files[k].nodes[i] : i \in 1..Len(files[k].nodes)} : k \in 1..Len(files)}

\* the paths the files of a package import
ImportedPaths(files) ==
    UNION {{files[k].imports[i].path : i \in 1..Len(files[k].imports)} : k \in 1..Len(files)}

\* the package-level names the files of a package declare
Declared(files) == {nd.name : nd \in {m \in NodesOf(files) : m.ctx = "decl"}}

\* the names of package p that the files refer to
UsedOf(files, p) == {nd.name : nd \in {m \in NodesOf(files) : m.use[1] = p}}

RECURSIVE SourcesOver(_, _)
\* the files of the packages L, by path, holding at most budget positions in all
SourcesOver(L, budget) ==
    IF L = {} THEN {<<>>}
    ELSE LET p == CHOOSE q \in L : \A r \in L : Rank(q) <= Rank(r)
         IN UNION { UNION { { (p :> fs) @@ rest : fs \in FileSeqs(p, c, 1) } :
                            rest \in SourcesOver(L \ {p}, budget - Sum(c)) } :
                    c \in {d \in Counts : Sum(d) + Cardinality(L) - 1 <= budget} }

\* the files of the loaded packages, by path: every layout within the bounds
Sources == UNION {SourcesOver(L, MaxTotal) : L \in SUBSET Loadable \ {{}}}

\* a project type-checks: every use has its declaration,
\* and the loaded packages do not import each other in a cycle
SourcesOk(src) ==
    /\ \A p \in DOMAIN src :
         /\ UsedOf(src[p], p) \subseteq Declared(src[p])
         /\ \A q \in DOMAIN src : UsedOf(src[p], q) \subseteq Declared(src[q])
    /\ ~ \E p, q \in DOMAIN src : p # q /\ q \in ImportedPaths(src[p]) /\ p \in ImportedPaths(src[q])

\* the scope of a dependency that is not loaded from source here: what the
\* project uses of it; an imported ex/pkg2 may also declare a T2 nobody uses
DepScopes(src) ==
    LET used(p) == UNION {UsedOf(src[q], p) : q \in DOMAIN src}
        imported == UNION {ImportedPaths(src[q]) : q \in DOMAIN src}
    IN {[p \in Paths \ DOMAIN src |-> IF p = P2 THEN used(p) \cup extra ELSE used(p)] :
          extra \in IF P2 \in imported THEN {{}, {"T2"}} ELSE {{}}}

\* types.Package.Scope() of path p in the project
ScopeOf(src, sc, p) == IF p \in DOMAIN src THEN Declared(src[p]) ELSE sc[p]

\* the *packages.Package of path p
Package(src, sc, p) ==
    [ID |-> p, PkgPath |-> p, Name |-> PkgName[p],
     Scope |-> ScopeOf(src, sc, p),
     Imports |-> {[Path |-> q, Scope |-> ScopeOf(src, sc, q)] : q \in ImportedPaths(src[p])},
     Syntax |-> src[p]]

\* every list packages.Load may return: the loaded packages in any order
Loads ==
    UNION {
      UNION { { s \in [1..Cardinality(DOMAIN src) -> {Package(src, sc, p) : p \in DOMAIN src}] :
                  \A i, j \in DOMAIN s : i # j => s[i].ID # s[j].ID } :
              sc \in DepScopes(src) } :
      src \in {x \in Sources : SourcesOk(x)} }

(***************************************************************************)
(* The command line (parseParamters): -from, -to, -to-pkg-name and -w.     *)
(***************************************************************************)
Parameters ==
    {[fromPkgPath |-> f[1], fromName |-> f[2], toPkgPath |-> t[1], toName |-> t[2],
      toPkgName |-> a, resultPresenter |-> pr] :
        f \in {<<P1, "T1">>, <<P2, "T2">>},
        t \in {<<P1, "T1">>, <<P2, "T2">>, <<P3, "T3">>},
        a \in {"", "alt"},
        pr \in {"buffered", "unbuffered"}}

VARIABLES
    params,    \* the parsed command line
    pc,        \* where main() is: "start", "loop", "done" (exit 0), "fatal" (log.Fatal)
    pkgs,      \* the sorted packages process() ranges over
    idx,       \* the index in pkgs of the next package to process
    err,       \* the error main() reported with log.Fatal
    buffer,    \* bufferedPresenter.buffer
    stdout,    \* what the unbufferedPresenter printed
    disk,      \* what ioutil.WriteFile wrote
    flushErr,  \* the value bp.flush() returned
    logged,    \* the positions log.Printf reported as replaced
    visited    \* the files whose declarations astutil.Apply has walked

vars == <<params, pc, pkgs, idx, err, buffer, stdout, disk, flushErr, logged, visited>>

(***************************************************************************)
(* Errors.                                                                 *)
(***************************************************************************)
NoFile == <<"", 0>>

Err(kind, file, name) == [kind |-> kind, file |-> file, name |-> name]

NoErr == Err("nil", NoFile, "")

(***************************************************************************)
(* process(): loading and sorting.                                         *)
(***************************************************************************)
\* loadToPkg: the destination package, by its path
loadToPkg(path) == [Name |-> PkgName[path], PkgPath |-> path]

\* the less function handed to sort.Slice: pkgs[i].String() < pkgs[j].String()
Less(a, b) == Rank(a.ID) < Rank(b.ID)

RECURSIVE Insert(_, _)
Insert(sorted, x) ==
    IF sorted = <<>> THEN <<x>>
    ELSE IF Less(x, Head(sorted)) THEN <<x>> \o sorted
    ELSE <<Head(sorted)>> \o Insert(Tail(sorted), x)

\* a faulty variant of Sort: the packages stay in the order they were loaded in
SortKeepsLoadOrder(s) == s

RECURSIVE Sort(_)
\* sort.Slice(pkgs, less)
Sort(s) == IF s = <<>> THEN <<>> ELSE Insert(Sort(Tail(s)), Head(s))

(***************************************************************************)
(* processPackage(), step by step.                                         *)
(***************************************************************************)
\* findImportScope: the scope of the import with that path; nil when there is none
findImportScope(impts, pkgPath) ==
    IF \E i \in impts : i.Path = pkgPath
    THEN [nil |-> FALSE, names |-> (CHOOSE i \in impts : i.Path = pkgPath).Scope]
    ELSE [nil |-> TRUE, names |-> {}]

\* types.Scope.Lookup: the object a scope binds to a name, or the nil object
Lookup(names, pkgPath, name) == IF name \in names THEN <<pkgPath, name>> ELSE NoObj

\* the target object; ret says that processPackage returns right away, with err
lookupTarget(pkg, ps) ==
    IF pkg.PkgPath = ps.fromPkgPath
    THEN LET target == Lookup(pkg.Scope, pkg.PkgPath, ps.fromName)
         IN IF target = NoObj
            THEN [ret |-> TRUE, err |-> Err("NotFoundLocally", NoFile, ps.fromName), target |-> NoObj]
            ELSE [ret |-> FALSE, err |-> NoErr, target |-> target]
    ELSE LET scope == findImportScope(pkg.Imports, ps.fromPkgPath)
         IN IF scope.nil
            THEN [ret |-> TRUE, err |-> NoErr, target |-> NoObj]
            ELSE LET target == Lookup(scope.names, ps.fromPkgPath, ps.fromName)
                 IN IF target = NoObj
                    THEN [ret |-> TRUE, err |-> Err("NotFoundInPackage", NoFile, ps.fromName),
                          target |-> NoObj]
                    ELSE [ret |-> FALSE, err |-> NoErr, target |-> target]

\* the positions of a package: <<file name, index>>
Positions(pkg) ==
    UNION {{<<pkg.Syntax[k].fname, i>> : i \in 1..Len(pkg.Syntax[k].nodes)} : k \in 1..Len(pkg.Syntax)}

NodeAt(pkg, pos) ==
    LET f == CHOOSE k \in 1..Len(pkg.Syntax) : pkg.Syntax[k].fname = pos[1]
    IN pkg.Syntax[f].nodes[pos[2]]

\* a faulty variant of Uses: the identifiers named like the target
UsesByName(pkg, target) == {pos \in Positions(pkg) : NodeAt(pkg, pos).name = target[2]}

\* the identifiers whose TypesInfo.Uses entry is the target (for a selector
\* position, its Sel identifier)
Uses(pkg, target) == {pos \in Positions(pkg) : NodeAt(pkg, pos).use = target}

\* a faulty variant of receiverIdents: a pointer receiver is not unwrapped
receiverIdentsNoStar(pkg) ==
    {pos \in Positions(pkg) : NodeAt(pkg, pos).kind = "ident" /\ NodeAt(pkg, pos).ctx = "recv"}

\* the identifiers that are the receiver type of a method, a *T unwrapped to T
receiverIdents(pkg) ==
    {pos \in Positions(pkg) :
        NodeAt(pkg, pos).kind = "ident" /\ NodeAt(pkg, pos).ctx \in {"recv", "recvStar"}}

\* usedIdents, after the receivers are deleted from it when from is local
usedIdents(pkg, ps, target) ==
    IF pkg.PkgPath = ps.fromPkgPath
    THEN Uses(pkg, target) \ receiverIdents(pkg)
    ELSE Uses(pkg, target)

\* nodeFilter: an identifier in usedIdents when from is local, a selector whose
\* Sel is in usedIdents when it is not
nodeFilter(fromLocal, used, pos, node) ==
    IF fromLocal
    THEN node.kind = "ident" /\ pos \in used
    ELSE node.kind = "sel" /\ pos \in used

\* buildImportPathMap: import path -> name, a later import of a path overwriting
buildImportPathMap(astFile) ==
    [p \in {astFile.imports[i].path : i \in 1..Len(astFile.imports)} |->
        LET last == CHOOSE i \in 1..Len(astFile.imports) :
                       /\ astFile.imports[i].path = p
                       /\ \A j \in 1..Len(astFile.imports) : astFile.imports[j].path = p => j <= i
        IN ImportIdent(astFile.imports[last])]

\* inverted: name -> import path (any of them, should two paths share a name)
invert(importMap) ==
    [n \in {importMap[p] : p \in DOMAIN importMap} |-> CHOOSE p \in DOMAIN importMap : importMap[p] = n]

\* a faulty variant of resolveToPkgName: an import under the destination's name
\* is never seen as a conflict
resolveToPkgNameIgnoresConflict(astFile, ps, toPkg) == [conflict |-> FALSE, name |-> toPkg.Name]

\* a faulty variant of resolveToPkgName: -to-pkg-name is used whenever it is given
resolveToPkgNamePrefersOverride(astFile, ps, toPkg) ==
    LET inverted == invert(buildImportPathMap(astFile))
    IN IF ps.toPkgName # ""
       THEN [conflict |-> FALSE, name |-> ps.toPkgName]
       ELSE [conflict |-> toPkg.Name \in DOMAIN inverted /\ inverted[toPkg.Name] # toPkg.PkgPath,
             name |-> toPkg.Name]

\* the package name the replacement is qualified with; conflict says that another
\* package is imported under the destination's name and no -to-pkg-name is given
resolveToPkgName(astFile, ps, toPkg) ==
    LET inverted == invert(buildImportPathMap(astFile))
    IN IF toPkg.Name \in DOMAIN inverted /\ inverted[toPkg.Name] # toPkg.PkgPath
       THEN IF ps.toPkgName = ""
            THEN [conflict |-> TRUE, name |-> toPkg.Name]
            ELSE [conflict |-> FALSE, name |-> ps.toPkgName]
       ELSE [conflict |-> FALSE, name |-> toPkg.Name]

\* replacedNode, put at a position: an identifier, or a selector toPkgName.toName
replacedNode(toLocal, toPkgName, ps, ctx) ==
    IF toLocal
    THEN Ident(ps.toName, NoObj, ctx)
    ELSE [Selector(toPkgName, ps.toName, NoObj) EXCEPT !.ctx = ctx]

\* astutil.AddNamedImport: nothing when the file imports path under exactly that name
AddNamedImport(imports, name, path) ==
    IF \E i \in 1..Len(imports) : imports[i].name = name /\ imports[i].path = path
    THEN imports
    ELSE Append(imports, ImportSpec(name, path))

\* astutil.AddImport
AddImport(imports, path) == AddNamedImport(imports, "", path)

\* imports.Process: the imports whose identifier no selector of the file mentions go
PruneImports(imports, nodes) ==
    LET mentioned == {nodes[i].x : i \in {j \in 1..Len(nodes) : nodes[j].kind = "sel"}}
    IN SelectSeq(imports, LAMBDA s : ImportIdent(s) \in mentioned)

(***************************************************************************)
(* The presenters.                                                         *)
(***************************************************************************)
Result(fname, content) == [fname |-> fname, content |-> content]

\* what printer.Fprint and imports.Process, or the presenter, may do wrong while
\* one package is processed: fail at the file with index at
NoFault == [kind |-> "none", at |-> 0]

Faults == {NoFault} \cup {[kind |-> k, at |-> i] : k \in {"format", "io"}, i \in 1..MaxFiles}

\* resultPresenter.writeContent: the buffered presenter appends and cannot fail,
\* the unbuffered one prints and returns what fmt.Println returned
writeContent(st, presenter, fname, content, fails) ==
    IF presenter = "buffered"
    THEN [st EXCEPT !.buffer = Append(@, Result(fname, content))]
    ELSE IF fails
         THEN [st EXCEPT !.err = Err("IOError", fname, "")]
         ELSE [st EXCEPT !.stdout = Append(@, Result(fname, content))]

(***************************************************************************)
(* processPackage(): one iteration of the loop over pkg.Syntax, then the   *)
(* loop.  st carries what the iteration may change.                        *)
(***************************************************************************)
\* a faulty variant of updated: every walked file counts as updated
updatedAlways(hits) == TRUE

\* processPackage(): updated, set by the Apply callback when it replaces a node
updated(hits) == hits # {}

processFile(pkg, ps, toPkg, used, k, st, fault) ==
    LET astFile == pkg.Syntax[k]
        fromLocal == pkg.PkgPath = ps.fromPkgPath
        toLocal == pkg.PkgPath = ps.toPkgPath
        r == resolveToPkgName(astFile, ps, toPkg)
        hits == {i \in 1..Len(astFile.nodes) :
                    nodeFilter(fromLocal, used, <<astFile.fname, i>>, astFile.nodes[i])}
        nodes == [i \in 1..Len(astFile.nodes) |->
                    IF i \in hits
                    THEN replacedNode(toLocal, r.name, ps, astFile.nodes[i].ctx)
                    ELSE astFile.nodes[i]]
        walked == [st EXCEPT !.logged = @ \cup {<<astFile.fname, i>> : i \in hits},
                             !.visited = Append(@, astFile.fname)]
        imports == IF toLocal THEN astFile.imports
                   ELSE IF r.name # toPkg.Name
                        THEN AddNamedImport(astFile.imports, r.name, ps.toPkgPath)
                        ELSE AddImport(astFile.imports, ps.toPkgPath)
        content == [imports |-> PruneImports(imports, nodes), nodes |-> nodes]
    IN IF r.conflict
       THEN [st EXCEPT !.err = Err("AliasConflict", astFile.fname, toPkg.Name)]
       ELSE IF ~updated(hits)
            THEN walked
            ELSE IF fault = [kind |-> "format", at |-> k]
                 THEN [walked EXCEPT !.err = Err("FormatError", astFile.fname, "")]
                 ELSE writeContent(walked, ps.resultPresenter, astFile.fname, content,
                                   fault = [kind |-> "io", at |-> k])

RECURSIVE fileLoop(_, _, _, _, _, _, _)
fileLoop(pkg, ps, toPkg, used, k, st, fault) ==
    IF k > Len(pkg.Syntax) THEN st
    ELSE LET st1 == processFile(pkg, ps, toPkg, used, k, st, fault)
         IN IF st1.err # NoErr THEN st1
            ELSE fileLoop(pkg, ps, toPkg, used, k + 1, st1, fault)

processPackage(pkg, ps, toPkg, st, fault) ==
    LET t == lookupTarget(pkg, ps)
    IN IF t.ret THEN [st EXCEPT !.err = t.err]
       ELSE fileLoop(pkg, ps, toPkg, usedIdents(pkg, ps, t.target), 1, st, fault)

(***************************************************************************)
(* main().                                                                 *)
(***************************************************************************)
Init ==
    /\ params \in Parameters
    /\ pc = "start"
    /\ pkgs = <<>>
    /\ idx = 1
    /\ err = NoErr
    /\ buffer = <<>>
    /\ stdout = <<>>
    /\ disk = <<>>
    /\ flushErr = FALSE
    /\ logged = {}
    /\ visited = <<>>

\* process(): both packages.Load calls succeed and the packages are sorted
Load ==
    /\ pc = "start"
    /\ \E loaded \in Loads : pkgs' = Sort(loaded)
    /\ pc' = "loop"
    /\ UNCHANGED <<params, idx, err, buffer, stdout, disk, flushErr, logged, visited>>

\* process(): a packages.Load call returns an error, and main() reports it
LoadError ==
    /\ pc = "start"
    /\ err' = Err("LoadError", NoFile, "")
    /\ pc' = "fatal"
    /\ UNCHANGED <<params, pkgs, idx, buffer, stdout, disk, flushErr, logged, visited>>

\* a faulty variant of afterPackage: the loop goes on after an error
afterPackageKeepsGoing(e) == "loop"

\* process(): where the loop over pkgs goes after processPackage returned e
afterPackage(e) == IF e # NoErr THEN "fatal" ELSE "loop"

\* process(): one iteration of the loop over pkgs; an error ends process() and
\* main() reports it
ProcessPackage ==
    /\ pc = "loop"
    /\ idx <= Len(pkgs)
    /\ \E fault \in {f \in Faults : f.at <= Len(pkgs[idx].Syntax)} :
          LET st == processPackage(pkgs[idx], params, loadToPkg(params.toPkgPath),
                                   [err |-> NoErr, buffer |-> buffer, stdout |-> stdout,
                                    logged |-> logged, visited |-> visited], fault)
          IN /\ buffer' = st.buffer
             /\ stdout' = st.stdout
             /\ logged' = st.logged
             /\ visited' = st.visited
             /\ err' = st.err
             /\ pc' = afterPackage(st.err)
             /\ idx' = IF afterPackage(st.err) = "loop" THEN idx + 1 ELSE idx
    /\ UNCHANGED <<params, pkgs, disk, flushErr>>

\* bufferedPresenter.flush: the files are written in order up to the first
\* ioutil.WriteFile that fails (failAt; 0 when none does)
flush(buf, failAt) ==
    [written |-> IF failAt = 0 THEN buf ELSE SubSeq(buf, 1, failAt - 1),
     failed |-> failAt # 0]

\* process() returns nil; main() flushes a buffered presenter, dropping what
\* flush returns, and exits
Finish ==
    /\ pc = "loop"
    /\ idx > Len(pkgs)
    /\ IF params.resultPresenter = "buffered"
       THEN \E failAt \in 0..Len(buffer) :
               /\ disk' = flush(buffer, failAt).written
               /\ flushErr' = flush(buffer, failAt).failed
       ELSE UNCHANGED <<disk, flushErr>>
    /\ pc' = "done"
    /\ UNCHANGED <<params, pkgs, idx, err, buffer, stdout, logged, visited>>

Next == Load \/ LoadError \/ ProcessPackage \/ Finish

Spec == Init /\ [][Next]_vars

(***************************************************************************)
(* What the claims speak of, said without the code's own operators.        *)
(***************************************************************************)
Range(s) == {s[i] : i \in 1..Len(s)}

\* the units the sink accepted
Emitted == IF params.resultPresenter = "buffered" THEN buffer ELSE stdout

Target == <<params.fromPkgPath, params.fromName>>

FromLocal(pkg) == pkg.PkgPath = params.fromPkgPath

ToLocal(pkg) == pkg.PkgPath = params.toPkgPath

\* the from symbol resolves in the package
FromResolves(pkg) ==
    IF FromLocal(pkg) THEN params.fromName \in pkg.Scope
    ELSE \E i \in pkg.Imports : i.Path = params.fromPkgPath /\ params.fromName \in i.Scope

\* the package imports the from package, which does not declare the name
UnresolvedButApplicable(pkg) ==
    /\ ~FromLocal(pkg)
    /\ \E i \in pkg.Imports : i.Path = params.fromPkgPath /\ params.fromName \notin i.Scope

PkgOf(fname) == CHOOSE k \in 1..Len(pkgs) : pkgs[k].PkgPath = fname[1]

FileOfName(fname) ==
    LET pkg == pkgs[PkgOf(fname)]
    IN pkg.Syntax[CHOOSE k \in 1..Len(pkg.Syntax) : pkg.Syntax[k].fname = fname]

AllFiles == UNION {{pkgs[k].Syntax[j].fname : j \in 1..Len(pkgs[k].Syntax)} : k \in 1..Len(pkgs)}

\* a genuine use of the from symbol: by identity, a receiver type left out
GenuineUse(pos) ==
    LET pkg == pkgs[PkgOf(pos[1])]
        nd == FileOfName(pos[1]).nodes[pos[2]]
    IN IF FromLocal(pkg)
       THEN nd.kind = "ident" /\ nd.use = Target /\ nd.ctx \notin {"recv", "recvStar"}
       ELSE nd.kind = "sel" /\ nd.use = Target

\* the position holds the replacement: a fresh node, named as the destination
IsReplacement(nd) == nd.use = NoObj /\ nd.ctx # "decl" /\ nd.name = params.toName

\* C1: in a package where the from symbol resolves, the positions replaced in a
\* unit are exactly the genuine uses of the symbol, chosen by identity: a
\* position that only bears the name is kept, and no genuine use is left
C1_ExactlyGenuineUses ==
    /\ \A pos \in logged : pos[1] \in Range(visited)
    /\ \A fname \in Range(visited) :
          /\ FromResolves(pkgs[PkgOf(fname)])
          /\ \A i \in 1..Len(FileOfName(fname).nodes) :
                <<fname, i>> \in logged <=> GenuineUse(<<fname, i>>)
    /\ \A r \in Range(Emitted) :
          \A i \in 1..Len(r.content.nodes) :
             IF GenuineUse(<<r.fname, i>>)
             THEN IsReplacement(r.content.nodes[i])
             ELSE r.content.nodes[i] = FileOfName(r.fname).nodes[i]
    /\ pc = "done" =>
          \A fname \in AllFiles : FromResolves(pkgs[PkgOf(fname)]) => fname \in Range(visited)

\* an emitted unit where a genuine use was replaced beside a position of the
\* same name that denotes another object
C1_Witness ==
    \E r \in Range(Emitted) :
       \E i, j \in 1..Len(r.content.nodes) :
          /\ GenuineUse(<<r.fname, i>>)
          /\ FileOfName(r.fname).nodes[j].name = params.fromName
          /\ FileOfName(r.fname).nodes[j].use \notin {Target, NoObj}
          /\ r.content.nodes[j] = FileOfName(r.fname).nodes[j]
          /\ r.content.nodes[i] # FileOfName(r.fname).nodes[i]

\* C2: when from is local, the receiver type of a method is never replaced,
\* value or pointer receiver, local or remote destination
C2_ReceiversKept ==
    \A fname \in AllFiles :
       FromLocal(pkgs[PkgOf(fname)]) =>
          \A i \in 1..Len(FileOfName(fname).nodes) :
             FileOfName(fname).nodes[i].ctx \in {"recv", "recvStar"} =>
                /\ <<fname, i>> \notin logged
                /\ \A r \in Range(Emitted) :
                      r.fname = fname => r.content.nodes[i] = FileOfName(fname).nodes[i]

\* an emitted unit of the from package: a use was replaced and the type of a
\* pointer receiver, which denotes the target too, was kept
C2_Witness ==
    \E r \in Range(Emitted) :
       /\ FromLocal(pkgs[PkgOf(r.fname)])
       /\ ~ToLocal(pkgs[PkgOf(r.fname)])
       /\ \E i, j \in 1..Len(r.content.nodes) :
             /\ FileOfName(r.fname).nodes[i].ctx = "recvStar"
             /\ FileOfName(r.fname).nodes[i].use = Target
             /\ r.content.nodes[i] = FileOfName(r.fname).nodes[i]
             /\ <<r.fname, j>> \in logged

\* the unit imports another package under the destination's default name
Conflicts(fname) ==
    \E i \in 1..Len(FileOfName(fname).imports) :
       /\ ImportIdent(FileOfName(fname).imports[i]) = PkgName[params.toPkgPath]
       /\ FileOfName(fname).imports[i].path # params.toPkgPath

\* the paths the imports of an emitted unit bind an identifier to
PathsOf(content, x) ==
    {content.imports[i].path : i \in {j \in 1..Len(content.imports) : ImportIdent(content.imports[j]) = x}}

C4_ConflictOnlyWhenReplaced ==
    err.kind = "AliasConflict" =>
       /\ ~ToLocal(pkgs[PkgOf(err.file)])
       /\ \E i \in 1..Len(FileOfName(err.file).nodes) : GenuineUse(<<err.file, i>>)

RoundTrip == params.toPkgPath = params.fromPkgPath /\ params.toName = params.fromName

\* the unit imports the from package, and only without an explicit name
ImportsFromImplicitly(fname) ==
    /\ \E i \in 1..Len(FileOfName(fname).imports) :
          FileOfName(fname).imports[i].path = params.fromPkgPath
    /\ \A i \in 1..Len(FileOfName(fname).imports) :
          FileOfName(fname).imports[i].path = params.fromPkgPath
             => FileOfName(fname).imports[i].name = ""

Reached(k) == k < idx \/ (k = idx /\ pc = "fatal" /\ err.kind # "LoadError")

\* C6 as claimed: a package that imports the from package, which does not
\* declare from.name, is neither dropped nor failed: matching goes on by name
\* and the run continues
C6_UnresolvedFallsThrough ==
    \A k \in 1..Len(pkgs) :
       (UnresolvedButApplicable(pkgs[k]) /\ Reached(k)) =>
          /\ err.kind # "NotFoundInPackage"
          /\ k < idx => \A j \in 1..Len(pkgs[k].Syntax) : pkgs[k].Syntax[j].fname \in Range(visited)

\* C7: with the buffered presenter nothing is printed and nothing is written
\* while packages are processed; files are written only once every package has
\* been processed without error, and a failed run writes no file at all
C7_BufferedWritesAfterSuccess ==
    params.resultPresenter = "buffered" =>
       /\ stdout = <<>>
       /\ pc # "done" => (disk = <<>> /\ ~flushErr)
       /\ pc = "done" => (err = NoErr /\ idx > Len(pkgs))
       /\ Len(disk) <= Len(buffer)
       /\ \A i \in 1..Len(disk) : disk[i] = buffer[i]

\* the second package failed after the first one had its unit buffered, and the
\* disk is untouched
C7_Witness ==
    /\ params.resultPresenter = "buffered"
    /\ pc = "fatal"
    /\ idx = 2
    /\ \E r \in Range(buffer) : PkgOf(r.fname) = 1
    /\ disk = <<>>

\* C8 as claimed: whenever writing a unit fails, in writeContent or in flush, the
\* run ends with a reported error and not as a success
C8_WriteFailureReported ==
    (flushErr \/ err.kind = "IOError") => (pc = "fatal" /\ err # NoErr)

\* C9 as claimed: for a remote destination, the qualifier of every replacement
\* in an emitted unit is bound by the unit's imports to the destination path
\* and to no other path
C9_QualifierBoundToDestination ==
    \A r \in Range(Emitted) :
       ~ToLocal(pkgs[PkgOf(r.fname)]) =>
          \A i \in 1..Len(r.content.nodes) :
             <<r.fname, i>> \in logged =>
                PathsOf(r.content, r.content.nodes[i].x) = {params.toPkgPath}

\* the unit has a genuine use in a package where from resolves
ShouldEmit(fname) ==
    /\ FromResolves(pkgs[PkgOf(fname)])
    /\ \E i \in 1..Len(FileOfName(fname).nodes) : GenuineUse(<<fname, i>>)

\* C10: the packages are processed in ascending order; once a package fails,
\* that one error is reported, no later package is processed and none of its
\* units reaches the sink, while the units emitted before stay with the sink
C10_SortedFailFast ==
    /\ \A i, j \in 1..Len(pkgs) : i < j => Rank(pkgs[i].ID) < Rank(pkgs[j].ID)
    /\ \A a, b \in 1..Len(visited) : a < b => Rank(visited[a][1]) <= Rank(visited[b][1])
    /\ \A fname \in Range(visited) \cup {r.fname : r \in Range(Emitted)} \cup {pos[1] : pos \in logged} :
          IF pc = "fatal" THEN PkgOf(fname) <= idx ELSE PkgOf(fname) < idx
    /\ pc = "fatal" <=> err # NoErr
    /\ err.file # NoFile => PkgOf(err.file) = idx
    /\ \A fname \in AllFiles :
          (/\ ShouldEmit(fname)
           /\ \/ PkgOf(fname) < idx
              \/ PkgOf(fname) = idx /\ err.file # NoFile /\ fname[2] < err.file[2])
          => fname \in {r.fname : r \in Range(Emitted)}

\* the first of two packages failed, and the second, which has a genuine use,
\* was not touched
C10_Witness ==
    /\ pc = "fatal"
    /\ idx = 1
    /\ Len(pkgs) = 2
    /\ err.kind \in {"AliasConflict", "FormatError", "IOError", "NotFoundLocally", "NotFoundInPackage"}
    /\ \E j \in 1..Len(pkgs[2].Syntax) : ShouldEmit(pkgs[2].Syntax[j].fname)

\* the package neither is the from package nor imports it
NotApplicable(pkg) ==
    /\ ~FromLocal(pkg)
    /\ \A i \in pkg.Imports : i.Path # params.fromPkgPath

\* a substitution occurred in the unit
Substituted(fname) == \E i \in 1..Len(FileOfName(fname).nodes) : <<fname, i>> \in logged

\* C11: a unit is handed to the sink if and only if a substitution occurred in
\* it, unless the run was stopped by an error on that very unit before the sink
\* took it; a unit without a substitution is never emitted, a project without a
\* reference to from emits no unit, and a package that neither is the from
\* package nor imports it emits nothing, is not walked and raises no error
C11_EmittedIffSubstituted ==
    /\ \A r \in Range(Emitted) :
          /\ r.fname \in AllFiles
          /\ Substituted(r.fname)
          /\ \E i \in 1..Len(r.content.nodes) : r.content.nodes[i] # FileOfName(r.fname).nodes[i]
    /\ \A fname \in AllFiles :
          (Substituted(fname) /\ fname \notin {r.fname : r \in Range(Emitted)}) =>
             /\ pc = "fatal"
             /\ err.file = fname
             /\ err.kind \in {"FormatError", "IOError"}
    /\ \A a, b \in 1..Len(Emitted) : Emitted[a].fname = Emitted[b].fname => a = b
    /\ (\A fname \in AllFiles : \A i \in 1..Len(FileOfName(fname).nodes) :
           FileOfName(fname).nodes[i].use # Target) => Emitted = <<>>
    /\ \A k \in 1..Len(pkgs) :
          NotApplicable(pkgs[k]) =>
             /\ \A j \in 1..Len(pkgs[k].Syntax) :
                   /\ pkgs[k].Syntax[j].fname \notin Range(visited)
                   /\ pkgs[k].Syntax[j].fname \notin {r.fname : r \in Range(Emitted)}
                   /\ ~Substituted(pkgs[k].Syntax[j].fname)
             /\ ~(k = idx /\ pc = "fatal" /\ err.kind # "LoadError")

\* a finished run emitted a unit with a substitution and walked another unit,
\* with a position that bears the from name, without emitting it
C11_Witness ==
    /\ pc = "done"
    /\ \E r \in Range(Emitted) : Substituted(r.fname)
    /\ \E fname \in Range(visited) :
          /\ ~Substituted(fname)
          /\ fname \notin {r.fname : r \in Range(Emitted)}
          /\ \E i \in 1..Len(FileOfName(fname).nodes) :
                FileOfName(fname).nodes[i].name = params.fromName

\* a run went past a package that neither is the from package nor imports it
C11_NotApplicableSkipped ==
    \E k \in 1..Len(pkgs) : k < idx /\ NotApplicable(pkgs[k]) /\ Len(pkgs[k].Syntax) > 0

====
